---------------------------- MODULE Spec2Model ----------------------------
(***************************************************************************)
(* Model of ancestry_analysis_01.py: the run of the __main__ block         *)
(*   parse_vcf -> parse_reference -> aggregate_frequencies ->              *)
(*   calculate_admixture -> (error message | display_results).             *)
(*                                                                         *)
(* Numbers.  Python floats are modelled by exact rationals                 *)
(* [num |-> n, den |-> d] in lowest terms with d > 0.  A value in the log  *)
(* domain (a log-likelihood) is held by its antilogarithm, an exact        *)
(* positive rational: math.log wraps, math.exp unwraps, a sum of logs is   *)
(* the product of the antilogarithms and the order is kept.  The source's  *)
(* epsilon (1e-9) is 1/EpsDen: TLC integers are 32 bits wide, and squares  *)
(* of 1e-9 do not fit.                                                     *)
(*                                                                         *)
(* Dictionaries.  Python dicts iterate in insertion order; a dict whose    *)
(* order matters is a sequence of records, the others are functions.       *)
(* None is the empty tuple <<>>, a defined value x is <<x>>.               *)
(***************************************************************************)
EXTENDS Integers, Sequences, FiniteSets, TLC

(***************************************************************************)
(* Bounds of the model.                                                    *)
(***************************************************************************)
\* epsilon = 1 / EpsDen
EpsDen == 8
\* the interior frequency of the reference table's cells is 1 - 1 / FreqDen
FreqDen == 4
\* the Hardy-Weinberg step alone: frequencies are multiples of 1 / FreqGrid
FreqGrid == 8

(***************************************************************************)
(* Program constants.                                                      *)
(***************************************************************************)
bar_width == 100

(***************************************************************************)
(* Exact rational arithmetic (the float operators +, -, *, /, <=).         *)
(***************************************************************************)
Abs(n) == IF n < 0 THEN -n ELSE n

RECURSIVE Gcd(_, _)
Gcd(a, b) == IF b = 0 THEN a ELSE Gcd(b, a % b)

Rat(n, d) ==
    LET g == Gcd(Abs(n), d)
    IN  [num |-> n \div g, den |-> d \div g]

Zero == [num |-> 0, den |-> 1]
One == [num |-> 1, den |-> 1]
FromInt(n) == [num |-> n, den |-> 1]

RatNeg(x) == [num |-> -x.num, den |-> x.den]

RatAdd(x, y) ==
    LET g == Gcd(x.den, y.den)
        l == x.den * (y.den \div g)
    IN  Rat(x.num * (l \div x.den) + y.num * (l \div y.den), l)

RatSub(x, y) == RatAdd(x, RatNeg(y))

RatMul(x, y) ==
    LET g1 == Gcd(Abs(x.num), y.den)
        g2 == Gcd(Abs(y.num), x.den)
    IN  Rat((x.num \div g1) * (y.num \div g2), (x.den \div g2) * (y.den \div g1))

\* x / y for y > 0
RatDiv(x, y) == RatMul(x, [num |-> y.den, den |-> y.num])

RatLeq(x, y) ==
    LET g == Gcd(x.den, y.den)
    IN  x.num * (y.den \div g) <= y.num * (x.den \div g)

RatLess(x, y) == ~RatLeq(y, x)

RatMax(x, y) == IF RatLeq(y, x) THEN x ELSE y
RatMin(x, y) == IF RatLeq(x, y) THEN x ELSE y

(***************************************************************************)
(* The log domain: a value is held by its antilogarithm.                   *)
(***************************************************************************)
\* math.log(x), x > 0
MathLog(x) == [antilog |-> x]
\* math.exp(l)
MathExp(l) == l.antilog
\* the float 0.0 as a log value
LogZero == MathLog(One)
LogAdd(a, b) == [antilog |-> RatMul(a.antilog, b.antilog)]
LogSub(a, b) == [antilog |-> RatDiv(a.antilog, b.antilog)]
LogLeq(a, b) == RatLeq(a.antilog, b.antilog)

(***************************************************************************)
(* None and defined values.                                                *)
(***************************************************************************)
None == <<>>
Some(x) == <<x>>
IsNone(o) == o = <<>>
Val(o) == o[1]

(***************************************************************************)
(* Labels.  LabelOrder lists the major group labels of POPULATION_MAP in   *)
(* the order Python's string comparison gives them.                        *)
(***************************************************************************)
LabelOrder ==
    << "African", "Americas", "Central/South Asian", "East Asian",
       "European", "Middle Eastern", "Oceanian" >>

LabelRank(s) == CHOOSE i \in 1..Len(LabelOrder) : LabelOrder[i] = s

\* a < b on group labels
LexLess(a, b) == LabelRank(a) < LabelRank(b)

\* sorted(list(S)) for a set of group labels
RECURSIVE SortedLabels(_)
SortedLabels(S) ==
    IF S = {} THEN <<>>
    ELSE LET m == CHOOSE x \in S : \A y \in S \ {x} : LexLess(x, y)
         IN  <<m>> \o SortedLabels(S \ {m})

\* the values of a dict given as a function
Values(f) == {f[k] : k \in DOMAIN f}

(***************************************************************************)
(* Inputs.                                                                 *)
(***************************************************************************)
\* variant identifiers, in file order
VariantOrder == << "rs1", "rs2" >>
VariantIds == {VariantOrder[i] : i \in 1..Len(VariantOrder)}

\* columns of the reference table, in header order
ColumnOrder == << "British", "French", "Yoruba" >>
Columns == {ColumnOrder[i] : i \in 1..Len(ColumnOrder)}

\* frequencies a cell of the reference table may hold: 0.0 and an interior
\* value
FreqChoices == {Zero, Rat(FreqDen - 1, FreqDen)}

\* group mappings: entries of POPULATION_MAP
PopMapFull ==
    [e \in {"British", "French", "Yoruba", "Papuan"} |->
        CASE e = "British" -> "European"
          [] e = "French" -> "European"
          [] e = "Yoruba" -> "African"
          [] e = "Papuan" -> "Oceanian"]

\* the same without Yoruba: the reference table's third column is outside it
PopMapNoYoruba ==
    [e \in {"British", "French", "Papuan"} |->
        CASE e = "British" -> "European"
          [] e = "French" -> "European"
          [] e = "Papuan" -> "Oceanian"]

PopMaps == {PopMapFull, PopMapNoYoruba}

\* a dict with keys K \subseteq S and values in T
PartialFns(S, T) == UNION {[K -> T] : K \in SUBSET S}

\* the rows parse_reference builds: a line gives the first n columns of the
\* header a frequency each (a short line leaves the last columns out)
ReferenceRows ==
    UNION {[{ColumnOrder[i] : i \in 1..n} -> FreqChoices] : n \in 0..Len(ColumnOrder)}

Genotypes == {0, 1, 2}

VARIABLES
    pc,                 \* position in the run
    pop_map,            \* POPULATION_MAP
    sample_genotypes,   \* variant -> genotype
    reference_freqs,    \* variant -> (ethnicity -> frequency)
    agg_i,              \* aggregate_frequencies: variants handled so far
    major_pop_freqs,    \* sequence of [pop, freqs], in insertion order
    log_likelihoods,    \* sequence of [pop, ll], in insertion order
    max_log_like,       \* None until computed
    likelihoods,        \* sequence of [pop, like]
    total_likelihood,   \* None until computed
    proportions,        \* sequence of [pop, perc]
    outcome,            \* what the run printed: "none", "error", "displayed"
    sorted_proportions, \* display_results: the sorted items
    disp_i,             \* display_results: index of the bar loop
    cumulative_width,   \* display_results
    segments,           \* display_results: the segment_width of each drawn segment
    bar_cells,          \* display_results: cells written between the brackets
    hw_in,              \* the Hardy-Weinberg step alone: its input
    hw_out              \* the Hardy-Weinberg step alone: its result

inputVars == <<pop_map, sample_genotypes, reference_freqs>>
aggVars == <<agg_i, major_pop_freqs>>
calcVars == <<log_likelihoods, max_log_like, likelihoods, total_likelihood, proportions>>
dispVars == <<sorted_proportions, disp_i, cumulative_width, segments, bar_cells>>
hwVars == <<hw_in, hw_out>>

vars == <<pc, inputVars, aggVars, calcVars, outcome, dispVars, hwVars>>

(***************************************************************************)
(* parse_vcf and parse_reference: the text formats are not modelled; the   *)
(* parsers' results are drawn from the dicts they can return.  parse_vcf   *)
(* keeps a variant only when its genotype string is recognised, so every   *)
(* value of its dict is 0, 1 or 2.                                         *)
(***************************************************************************)
ParseVcf ==
    /\ pc = "parse_vcf"
    /\ \E g \in PartialFns(VariantIds, Genotypes) : sample_genotypes' = g
    /\ pc' = "parse_reference"
    /\ UNCHANGED <<pop_map, reference_freqs, aggVars, calcVars, outcome, dispVars, hwVars>>

ParseReference ==
    /\ pc = "parse_reference"
    /\ \E t \in PartialFns(VariantIds, ReferenceRows) : reference_freqs' = t
    /\ pc' = "aggregate"
    /\ UNCHANGED <<pop_map, sample_genotypes, aggVars, calcVars, outcome, dispVars, hwVars>>

(***************************************************************************)
(* aggregate_frequencies                                                   *)
(***************************************************************************)
\* major_populations = sorted(list(set(pop_map.values())))
MajorPopulations(pm) == SortedLabels(Values(pm))

\* list(d.keys()) for a dict keyed by variants or columns
RECURSIVE KeysInOrder(_, _)
KeysInOrder(order, keys) ==
    IF order = <<>> THEN <<>>
    ELSE (IF Head(order) \in keys THEN <<Head(order)>> ELSE <<>>)
         \o KeysInOrder(Tail(order), keys)

\* pop_sums[pop] after the loop over the items of a row: 0.0, then each
\* mapped column's frequency added in turn
RECURSIVE PopSum(_, _, _, _)
PopSum(row, cols, pm, pop) ==
    IF cols = <<>> THEN Zero
    ELSE LET e == cols[Len(cols)]
             before == PopSum(row, SubSeq(cols, 1, Len(cols) - 1), pm, pop)
         IN  IF e \in DOMAIN pm /\ pm[e] = pop THEN RatAdd(before, row[e]) ELSE before

\* mutant of PopCount: every column of the row is counted, mapped or not
PopCountAll(cols, pm, pop) == Len(cols)

\* pop_counts[pop] after the loop over the items of a row
RECURSIVE PopCount(_, _, _)
PopCount(cols, pm, pop) ==
    IF cols = <<>> THEN 0
    ELSE LET e == cols[Len(cols)]
             before == PopCount(SubSeq(cols, 1, Len(cols) - 1), pm, pop)
         IN  IF e \in DOMAIN pm /\ pm[e] = pop THEN before + 1 ELSE before

\* the average, or None
GroupAverage(row, pm, pop) ==
    LET cols == KeysInOrder(ColumnOrder, DOMAIN row)
        n == PopCount(cols, pm, pop)
    IN  IF n > 0 THEN Some(RatDiv(PopSum(row, cols, pm, pop), FromInt(n)))
        ELSE None

\* the initialised structure: every major population with an empty dict
InitStructure(pm) ==
    LET mp == MajorPopulations(pm)
    IN  [i \in 1..Len(mp) |-> [pop |-> mp[i], freqs |-> <<>>]]

\* f with key k set to v (a dict store)
Store(f, k, v) == [x \in DOMAIN f \cup {k} |-> IF x = k THEN v ELSE f[x]]

AggVariants == KeysInOrder(VariantOrder, DOMAIN reference_freqs)

\* entry: major_populations is computed and the structure initialised
AggregateEnter ==
    /\ pc = "aggregate"
    /\ major_pop_freqs' = InitStructure(pop_map)
    /\ agg_i' = 0
    /\ pc' = "aggregate_loop"
    /\ UNCHANGED <<inputVars, calcVars, outcome, dispVars, hwVars>>

\* one iteration of the loop over the variants
AggregateVariant ==
    /\ pc = "aggregate_loop"
    /\ agg_i < Len(AggVariants)
    /\ LET variant == AggVariants[agg_i + 1]
           row == reference_freqs[variant]
       IN  major_pop_freqs' =
               [i \in 1..Len(major_pop_freqs) |->
                   [pop |-> major_pop_freqs[i].pop,
                    freqs |-> Store(major_pop_freqs[i].freqs, variant,
                                    GroupAverage(row, pop_map, major_pop_freqs[i].pop))]]
    /\ agg_i' = agg_i + 1
    /\ UNCHANGED <<pc, inputVars, calcVars, outcome, dispVars, hwVars>>

AggregateReturn ==
    /\ pc = "aggregate_loop"
    /\ agg_i = Len(AggVariants)
    /\ pc' = "likelihood"
    /\ UNCHANGED <<inputVars, aggVars, calcVars, outcome, dispVars, hwVars>>

(***************************************************************************)
(* calculate_admixture                                                     *)
(***************************************************************************)
epsilon == Rat(1, EpsDen)

\* mutant of ClampFreq: the lower clamp is missing
ClampFreqUpperOnly(p) == RatMin(RatSub(One, epsilon), p)

\* p = max(epsilon, min(1 - epsilon, p))
ClampFreq(p) == RatMax(epsilon, RatMin(RatSub(One, epsilon), p))

\* the Hardy-Weinberg probability of a genotype at clamped frequency p
HWProb(genotype, p) ==
    IF genotype = 0 THEN RatMul(RatSub(One, p), RatSub(One, p))
    ELSE IF genotype = 1 THEN RatMul(RatMul(FromInt(2), p), RatSub(One, p))
    ELSE RatMul(p, p)

\* the argument of math.log: max(prob, epsilon)
LogArg(prob) == RatMax(prob, epsilon)

\* one pass of the loop body for a variant that is not skipped
HardyWeinberg(genotype, freq) ==
    LET p == ClampFreq(freq)
        prob == HWProb(genotype, p)
        arg == LogArg(prob)
    IN  [p |-> p, prob |-> prob, arg |-> arg, term |-> MathLog(arg)]

\* mutant of Skipped: a truth test (not freqs[variant]) in place of
\* "is None", which also skips a frequency of 0.0
SkippedIfFalsy(freqs, variant) ==
    \/ variant \notin DOMAIN freqs
    \/ IsNone(freqs[variant])
    \/ freqs[variant] = Some(Zero)

\* the condition of the continue: the variant is not in freqs, or is None
Skipped(freqs, variant) == variant \notin DOMAIN freqs \/ IsNone(freqs[variant])

\* total_log_likelihood after the loop over the items of sample_genotypes
RECURSIVE LogLikeLoop(_, _, _, _)
LogLikeLoop(acc, keys, sample, freqs) ==
    IF keys = <<>> THEN acc
    ELSE LET variant == Head(keys)
         IN  IF Skipped(freqs, variant)
             THEN LogLikeLoop(acc, Tail(keys), sample, freqs)
             ELSE LogLikeLoop(
                      LogAdd(acc, HardyWeinberg(sample[variant], Val(freqs[variant])).term),
                      Tail(keys), sample, freqs)

TotalLogLikelihood(sample, freqs) ==
    LogLikeLoop(LogZero, KeysInOrder(VariantOrder, DOMAIN sample), sample, freqs)

\* one iteration of the loop over major_pop_freqs.items()
LikelihoodGroup ==
    /\ pc = "likelihood"
    /\ Len(log_likelihoods) < Len(major_pop_freqs)
    /\ LET item == major_pop_freqs[Len(log_likelihoods) + 1]
       IN  log_likelihoods' =
               Append(log_likelihoods,
                      [pop |-> item.pop,
                       ll |-> TotalLogLikelihood(sample_genotypes, item.freqs)])
    /\ UNCHANGED <<pc, inputVars, aggVars, max_log_like, likelihoods, total_likelihood,
                   proportions, outcome, dispVars, hwVars>>

\* mutant of MaxLogLike: the minimum is subtracted
RECURSIVE MinLogLike(_)
MinLogLike(lls) ==
    IF Len(lls) = 1 THEN lls[1].ll
    ELSE LET m == MinLogLike(Tail(lls))
         IN  IF LogLeq(lls[1].ll, m) THEN lls[1].ll ELSE m

\* max(log_likelihoods.values()), for a non-empty dict (on an empty one
\* max raises ValueError: no group mapping of the model is empty)
RECURSIVE MaxLogLike(_)
MaxLogLike(lls) ==
    IF Len(lls) = 1 THEN lls[1].ll
    ELSE LET m == MaxLogLike(SubSeq(lls, 1, Len(lls) - 1))
         IN  IF LogLeq(lls[Len(lls)].ll, m) THEN m ELSE lls[Len(lls)].ll

\* {pop: math.exp(ll - max_log_like) for pop, ll in log_likelihoods.items()}
Likelihoods(lls, m) ==
    [i \in 1..Len(lls) |-> [pop |-> lls[i].pop, like |-> MathExp(LogSub(lls[i].ll, m))]]

\* sum(likelihoods.values()): 0, then each value added in turn
RECURSIVE SumLikelihoods(_)
SumLikelihoods(ls) ==
    IF ls = <<>> THEN Zero
    ELSE RatAdd(SumLikelihoods(SubSeq(ls, 1, Len(ls) - 1)), ls[Len(ls)].like)

\* mutant of Proportions: the rescaled likelihoods are returned undivided
ProportionsUndivided(mpf, ls, total) ==
    IF total = Zero
    THEN [i \in 1..Len(mpf) |-> [pop |-> mpf[i].pop, perc |-> Zero]]
    ELSE [i \in 1..Len(ls) |-> [pop |-> ls[i].pop, perc |-> ls[i].like]]

\* the returned dict
Proportions(mpf, ls, total) ==
    IF total = Zero
    THEN [i \in 1..Len(mpf) |-> [pop |-> mpf[i].pop, perc |-> Zero]]
    ELSE [i \in 1..Len(ls) |-> [pop |-> ls[i].pop, perc |-> RatDiv(ls[i].like, total)]]

\* the normalisation, to the return
Normalize ==
    /\ pc = "likelihood"
    /\ Len(log_likelihoods) = Len(major_pop_freqs)
    /\ Len(log_likelihoods) > 0
    /\ LET m == MaxLogLike(log_likelihoods)
           ls == Likelihoods(log_likelihoods, m)
           total == SumLikelihoods(ls)
       IN  /\ max_log_like' = Some(m)
           /\ likelihoods' = ls
           /\ total_likelihood' = Some(total)
           /\ proportions' = Proportions(major_pop_freqs, ls, total)
    /\ pc' = "report"
    /\ UNCHANGED <<inputVars, aggVars, log_likelihoods, outcome, dispVars, hwVars>>

(***************************************************************************)
(* The Hardy-Weinberg step alone, on any frequency.                        *)
(***************************************************************************)
ApplyHardyWeinberg ==
    /\ pc = "hw"
    /\ hw_out' = Some(HardyWeinberg(hw_in.genotype, hw_in.freq))
    /\ pc' = "hw_done"
    /\ UNCHANGED <<inputVars, aggVars, calcVars, outcome, dispVars, hw_in>>

(***************************************************************************)
(* __main__, step 4, and display_results                                   *)
(***************************************************************************)
\* any(d.values()) for floats: some value is not 0
AnyNonZero(ps) == \E i \in 1..Len(ps) : ps[i].perc # Zero

MainReport ==
    /\ pc = "report"
    /\ IF ~AnyNonZero(proportions)
       THEN /\ outcome' = "error"
            /\ pc' = "done"
       ELSE /\ outcome' = "displayed"
            /\ pc' = "display"
    /\ UNCHANGED <<inputVars, aggVars, calcVars, dispVars, hwVars>>

\* mutant of InsertDescending: x goes before the items whose key equals
\* its own (an ascending sort, reversed)
RECURSIVE InsertBeforeEqual(_, _)
InsertBeforeEqual(s, x) ==
    IF s = <<>> THEN <<x>>
    ELSE IF RatLess(x.perc, s[1].perc) THEN <<s[1]>> \o InsertBeforeEqual(Tail(s), x)
    ELSE <<x>> \o s

\* x goes after every item whose key is >= its own (a stable descending sort)
RECURSIVE InsertDescending(_, _)
InsertDescending(s, x) ==
    IF s = <<>> THEN <<x>>
    ELSE IF RatLeq(x.perc, s[1].perc) THEN <<s[1]>> \o InsertDescending(Tail(s), x)
    ELSE <<x>> \o s

\* sorted(proportions.items(), key=lambda item: item[1], reverse=True)
RECURSIVE SortedDescending(_)
SortedDescending(ps) ==
    IF ps = <<>> THEN <<>>
    ELSE InsertDescending(SortedDescending(SubSeq(ps, 1, Len(ps) - 1)), ps[Len(ps)])

\* round(x) for x >= 0: to the nearest integer, a half to the even one
PyRound(x) ==
    LET q == x.num \div x.den
        r == x.num % x.den
    IN  IF 2 * r < x.den THEN q
        ELSE IF 2 * r > x.den THEN q + 1
        ELSE IF q % 2 = 0 THEN q ELSE q + 1

\* len([p for p in sorted_proportions if p[1] > 0])
NumPositive(sp) == Cardinality({i \in 1..Len(sp) : RatLess(Zero, sp[i].perc)})

DisplayResults ==
    /\ pc = "display"
    /\ sorted_proportions' = SortedDescending(proportions)
    /\ cumulative_width' = 0
    /\ disp_i' = 0
    /\ segments' = <<>>
    /\ bar_cells' = 0
    /\ pc' = "bar"
    /\ UNCHANGED <<inputVars, aggVars, calcVars, outcome, hwVars>>

\* one iteration of the loop that draws the stacked bar
DrawSegment ==
    /\ pc = "bar"
    /\ disp_i < Len(sorted_proportions)
    /\ LET perc == sorted_proportions[disp_i + 1].perc
           rounded == PyRound(RatMul(perc, FromInt(bar_width)))
           segment_width ==
               IF disp_i = NumPositive(sorted_proportions) - 1
               THEN bar_width - cumulative_width
               ELSE rounded
       IN  IF perc = Zero
           THEN UNCHANGED <<cumulative_width, segments, bar_cells>>
           ELSE /\ segments' = Append(segments, segment_width)
                /\ bar_cells' = bar_cells + (IF segment_width > 0 THEN segment_width ELSE 0)
                /\ cumulative_width' = cumulative_width + segment_width
    /\ disp_i' = disp_i + 1
    /\ UNCHANGED <<pc, inputVars, aggVars, calcVars, outcome, sorted_proportions, hwVars>>

\* the bar is closed (the legend prints no state)
DisplayReturn ==
    /\ pc = "bar"
    /\ disp_i = Len(sorted_proportions)
    /\ pc' = "done"
    /\ UNCHANGED <<inputVars, aggVars, calcVars, outcome, dispVars, hwVars>>

(***************************************************************************)
(* Specifications                                                          *)
(***************************************************************************)
Idle ==
    /\ sample_genotypes = <<>>
    /\ reference_freqs = <<>>
    /\ agg_i = 0
    /\ major_pop_freqs = <<>>
    /\ log_likelihoods = <<>>
    /\ max_log_like = None
    /\ likelihoods = <<>>
    /\ total_likelihood = None
    /\ proportions = <<>>
    /\ outcome = "none"
    /\ sorted_proportions = <<>>
    /\ disp_i = 0
    /\ cumulative_width = 0
    /\ segments = <<>>
    /\ bar_cells = 0
    /\ hw_in = [genotype |-> 0, freq |-> Zero]
    /\ hw_out = None

\* the whole run
Init ==
    /\ pc = "parse_vcf"
    /\ pop_map \in PopMaps
    /\ Idle

Next ==
    \/ ParseVcf
    \/ ParseReference
    \/ AggregateEnter
    \/ AggregateVariant
    \/ AggregateReturn
    \/ LikelihoodGroup
    \/ Normalize
    \/ MainReport
    \/ DisplayResults
    \/ DrawSegment
    \/ DisplayReturn

Spec == Init /\ [][Next]_vars

(***************************************************************************)
(* display_results alone, on any proportion vector over four groups whose  *)
(* values are thousandths in [0,1] that sum to 1.                          *)
(***************************************************************************)
DisplayLabels == << "African", "Americas", "East Asian", "European" >>

DisplayThousandths == {0, 2, 6, 250, 494, 500, 986}

DisplayVectors ==
    {<<a, b, c, 1000 - (a + b + c)>> :
        <<a, b, c>> \in {t \in DisplayThousandths \X DisplayThousandths \X DisplayThousandths :
                            t[1] + t[2] + t[3] <= 1000}}

InitDisplay ==
    /\ pc = "display"
    /\ pop_map = PopMapFull
    /\ sample_genotypes = <<>>
    /\ reference_freqs = <<>>
    /\ agg_i = 0
    /\ major_pop_freqs = <<>>
    /\ log_likelihoods = <<>>
    /\ max_log_like = None
    /\ likelihoods = <<>>
    /\ total_likelihood = None
    /\ \E v \in DisplayVectors :
           proportions = [i \in 1..Len(DisplayLabels) |->
                             [pop |-> DisplayLabels[i], perc |-> Rat(v[i], 1000)]]
    /\ outcome = "displayed"
    /\ sorted_proportions = <<>>
    /\ disp_i = 0
    /\ cumulative_width = 0
    /\ segments = <<>>
    /\ bar_cells = 0
    /\ hw_in = [genotype |-> 0, freq |-> Zero]
    /\ hw_out = None

NextDisplay ==
    \/ DisplayResults
    \/ DrawSegment
    \/ DisplayReturn

SpecDisplay == InitDisplay /\ [][NextDisplay]_vars

(***************************************************************************)
(* The Hardy-Weinberg step alone, on every genotype and on frequencies     *)
(* inside and outside [0,1].                                               *)
(***************************************************************************)
HWFreqs == {Rat(k, FreqGrid) : k \in (-FreqGrid)..(2 * FreqGrid)}

InitHW ==
    /\ pc = "hw"
    /\ pop_map = PopMapFull
    /\ sample_genotypes = <<>>
    /\ reference_freqs = <<>>
    /\ agg_i = 0
    /\ major_pop_freqs = <<>>
    /\ log_likelihoods = <<>>
    /\ max_log_like = None
    /\ likelihoods = <<>>
    /\ total_likelihood = None
    /\ proportions = <<>>
    /\ outcome = "none"
    /\ sorted_proportions = <<>>
    /\ disp_i = 0
    /\ cumulative_width = 0
    /\ segments = <<>>
    /\ bar_cells = 0
    /\ hw_in \in [genotype : Genotypes, freq : HWFreqs]
    /\ hw_out = None

NextHW == ApplyHardyWeinberg

SpecHW == InitHW /\ [][NextHW]_vars

(***************************************************************************)
(* Properties                                                              *)
(***************************************************************************)
\* aggregate_frequencies has returned
AfterAggregate == pc \in {"likelihood", "report", "display", "bar", "done"}

\* calculate_admixture has returned
AfterAdmixture == pc \in {"report", "display", "bar", "done"}

\* the columns of variant v whose label maps to group pop
MappedColumns(v, pop) ==
    {e \in DOMAIN reference_freqs[v] : e \in DOMAIN pop_map /\ pop_map[e] = pop}

\* the sum of the frequencies of a set of columns of a row
RECURSIVE SumOfColumns(_, _)
SumOfColumns(row, Q) ==
    IF Q = {} THEN Zero
    ELSE LET e == CHOOSE x \in Q : TRUE
         IN  RatAdd(row[e], SumOfColumns(row, Q \ {e}))

\* C1: the table aggregate_frequencies returns has one entry for exactly
\* every (major group of the mapping's value set, variant of the reference
\* table); the entry is None exactly when no column of the variant maps to
\* the group, and otherwise it is the arithmetic mean of the frequencies of
\* the columns that map to the group (columns outside the mapping count for
\* nothing).
C1_AggregateMean ==
    AfterAggregate =>
        /\ Len(major_pop_freqs) = Cardinality(Values(pop_map))
        /\ {major_pop_freqs[i].pop : i \in 1..Len(major_pop_freqs)} = Values(pop_map)
        /\ \A i \in 1..Len(major_pop_freqs) :
              /\ DOMAIN major_pop_freqs[i].freqs = DOMAIN reference_freqs
              /\ \A v \in DOMAIN reference_freqs :
                    LET Q == MappedColumns(v, major_pop_freqs[i].pop)
                        entry == major_pop_freqs[i].freqs[v]
                    IN  /\ IsNone(entry) <=> Q = {}
                        /\ Q # {} =>
                              RatMul(Val(entry), FromInt(Cardinality(Q)))
                                  = SumOfColumns(reference_freqs[v], Q)

\* a returned table with an undefined entry, an entry that is exactly 0.0, a
\* mean of two different columns, and a column outside the mapping
C1_Witness ==
    /\ AfterAggregate
    /\ \E i, j, k \in 1..Len(major_pop_freqs) : \E v \in DOMAIN reference_freqs :
          /\ IsNone(major_pop_freqs[i].freqs[v])
          /\ major_pop_freqs[j].freqs[v] = Some(Zero)
          /\ \E w \in DOMAIN reference_freqs :
                /\ Cardinality(MappedColumns(w, major_pop_freqs[k].pop)) = 2
                /\ reference_freqs[w]["British"] # reference_freqs[w]["French"]
    /\ \E v \in DOMAIN reference_freqs :
          \E e \in DOMAIN reference_freqs[v] : e \notin DOMAIN pop_map

\* the variants that count for a group: in the sample, in the group's row,
\* and defined there
Counted(freqs) ==
    {v \in DOMAIN sample_genotypes : v \in DOMAIN freqs /\ ~IsNone(freqs[v])}

\* the sum of one Hardy-Weinberg log term per variant of a set
RECURSIVE SumOfTerms(_, _)
SumOfTerms(freqs, Q) ==
    IF Q = {} THEN LogZero
    ELSE LET v == CHOOSE x \in Q : TRUE
         IN  LogAdd(HardyWeinberg(sample_genotypes[v], Val(freqs[v])).term,
                    SumOfTerms(freqs, Q \ {v}))

\* C2: every accumulated log-likelihood is the sum of exactly one
\* Hardy-Weinberg log term per variant that is in the sample and defined for
\* the group; a group with no such variant has log-likelihood exactly 0.
C2_LogLikelihoodSum ==
    \A i \in 1..Len(log_likelihoods) :
        LET freqs == major_pop_freqs[i].freqs
        IN  /\ log_likelihoods[i].pop = major_pop_freqs[i].pop
            /\ log_likelihoods[i].ll = SumOfTerms(freqs, Counted(freqs))
            /\ Counted(freqs) = {} => log_likelihoods[i].ll = LogZero

\* all log-likelihoods are computed; one group sums two terms, one sums one
\* term (a variant of the sample is undefined for it) and one sums none
C2_Witness ==
    /\ AfterAdmixture
    /\ \E i, j, k \in 1..Len(log_likelihoods) :
          /\ Cardinality(Counted(major_pop_freqs[i].freqs)) = 2
          /\ Cardinality(Counted(major_pop_freqs[j].freqs)) = 1
          /\ Cardinality(DOMAIN sample_genotypes) = 2
          /\ Counted(major_pop_freqs[k].freqs) = {}
          /\ log_likelihoods[i].ll # LogZero
          /\ log_likelihoods[j].ll # LogZero

RECURSIVE SumOfProportions(_)
SumOfProportions(ps) ==
    IF ps = <<>> THEN Zero ELSE RatAdd(ps[1].perc, SumOfProportions(Tail(ps)))

\* C3: calculate_admixture returns a proportion for every group of its
\* frequency table, each within [0,1]; they sum to 1, unless all are 0.
C3_ProportionVector ==
    AfterAdmixture =>
        /\ Len(proportions) = Len(major_pop_freqs)
        /\ \A i \in 1..Len(proportions) :
              /\ proportions[i].pop = major_pop_freqs[i].pop
              /\ RatLeq(Zero, proportions[i].perc)
              /\ RatLeq(proportions[i].perc, One)
        /\ \/ SumOfProportions(proportions) = One
           \/ /\ \A i \in 1..Len(proportions) : proportions[i].perc = Zero
              /\ SumOfProportions(proportions) = Zero

\* a returned vector of three different non-zero proportions
C3_Witness ==
    /\ AfterAdmixture
    /\ Len(proportions) = 3
    /\ RatLess(Zero, proportions[1].perc)
    /\ RatLess(proportions[1].perc, proportions[2].perc)
    /\ RatLess(proportions[2].perc, proportions[3].perc)

\* no variant of the sample has a defined frequency in any group
NoOverlap == \A i \in 1..Len(major_pop_freqs) : Counted(major_pop_freqs[i].freqs) = {}

\* C4: when no variant of the sample has a defined frequency in any group,
\* the total of the rescaled likelihoods is zero and every returned
\* proportion is 0.0.
C4_DegenerateAllZero ==
    (AfterAdmixture /\ NoOverlap) =>
        /\ total_likelihood = Some(Zero)
        /\ \A i \in 1..Len(proportions) : proportions[i].perc = Zero

\* the group's frequency is undefined for every variant of the table
AllUndefined(freqs) == \A v \in DOMAIN freqs : IsNone(freqs[v])

\* C5: a group whose frequency is undefined for every variant of the
\* reference table receives proportion 0.0.
C5_UndefinedGroupZero ==
    AfterAdmixture =>
        \A i \in 1..Len(proportions) :
            (DOMAIN reference_freqs # {} /\ AllUndefined(major_pop_freqs[i].freqs))
                => proportions[i].perc = Zero

\* C6: the run ends with the error message and without display_results
\* when no variant of the sample overlaps a defined frequency, and with
\* display_results on the complete vector otherwise.
C6_ReportsNoOverlap ==
    pc = "done" =>
        /\ NoOverlap => outcome = "error" /\ sorted_proportions = <<>>
        /\ ~NoOverlap =>
              /\ outcome = "displayed"
              /\ {sorted_proportions[i] : i \in 1..Len(sorted_proportions)}
                     = {proportions[i] : i \in 1..Len(proportions)}

\* C7: the frequency the Hardy-Weinberg formula uses lies in
\* [epsilon, 1 - epsilon], the argument of the logarithm lies in
\* [epsilon, 1] (so it is never 0), and the log term is finite and <= 0.
C7_Clamping ==
    ~IsNone(hw_out) =>
        LET r == Val(hw_out)
        IN  /\ RatLeq(epsilon, r.p) /\ RatLeq(r.p, RatSub(One, epsilon))
            /\ RatLeq(epsilon, r.arg) /\ RatLeq(r.arg, One)
            /\ RatLess(Zero, r.arg)
            /\ r.term = MathLog(r.arg)
            /\ LogLeq(r.term, LogZero)

\* the step has run on frequency 0.0 for the homozygous alternate genotype:
\* the frequency was raised to epsilon and the probability floored at epsilon
C7_Witness ==
    /\ ~IsNone(hw_out)
    /\ hw_in = [genotype |-> 2, freq |-> Zero]
    /\ Val(hw_out).p = epsilon
    /\ RatLess(Val(hw_out).prob, epsilon)
    /\ Val(hw_out).arg = epsilon

\* display_results has sorted the proportions
Sorted == outcome = "displayed" /\ pc \in {"bar", "done"}

\* C8: the sequence display_results iterates holds the items of the
\* proportion vector by non-increasing proportion, equal proportions by
\* ascending group label.
C8_PresentationOrder ==
    Sorted =>
        /\ Len(sorted_proportions) = Len(proportions)
        /\ {sorted_proportions[i] : i \in 1..Len(sorted_proportions)}
               = {proportions[i] : i \in 1..Len(proportions)}
        /\ \A i, j \in 1..Len(sorted_proportions) :
              i < j =>
                  /\ RatLeq(sorted_proportions[j].perc, sorted_proportions[i].perc)
                  /\ sorted_proportions[i].perc = sorted_proportions[j].perc =>
                         LexLess(sorted_proportions[i].pop, sorted_proportions[j].pop)

\* a sorted sequence that differs from the vector's order and holds a tie
C8_Witness ==
    /\ Sorted
    /\ Len(sorted_proportions) = 3
    /\ sorted_proportions[1].pop # proportions[1].pop
    /\ \E i \in 1..2 : sorted_proportions[i].perc = sorted_proportions[i + 1].perc
    /\ sorted_proportions[1].perc # sorted_proportions[3].perc

RECURSIVE SumOfWidths(_)
SumOfWidths(ws) == IF ws = <<>> THEN 0 ELSE ws[1] + SumOfWidths(Tail(ws))

\* C10: when the bar is closed every drawn segment has a non-negative
\* width and the cells written between the brackets are exactly bar_width.
C10_BarWidth ==
    (pc = "done" /\ outcome = "displayed") =>
        /\ \A i \in 1..Len(segments) : segments[i] >= 0
        /\ SumOfWidths(segments) = bar_width
        /\ bar_cells = bar_width

=============================================================================
